---- MODULE Spec2Model ----
(***************************************************************************)
(* Model of src/main.py: the /audio-to-pdf handler (audio_to_pdf).         *)
(*                                                                         *)
(* An upload is staged in a named temporary file, decoded by soundfile,    *)
(* mixed down to mono, fed to a fresh Vosk KaldiRecognizer built on the    *)
(* process-wide vosk_model, and the stripped transcript is laid out by     *)
(* FPDF().multi_cell into an A4 document that is serialised and returned.  *)
(*                                                                         *)
(* Text is a sequence of Unicode code points.  Lengths are integers in     *)
(* units of 1/25400 pt, in which both the library's point-valued defaults  *)
(* and the millimetre arguments of the calls are whole numbers             *)
(* (0.01 pt = 254 units, 1 mm = 72000 units).                              *)
(***************************************************************************)
EXTENDS Integers, Sequences, FiniteSets, TLC

VARIABLES
    pc,          \* per invocation: position in audio_to_pdf
    loc,         \* per invocation: the handler's local variables
    fs,          \* the temporary directory: name -> file or NoFile
    sessions,    \* the KaldiRecognizer objects created so far
    vosk_model,  \* the module-level Model (line 15)
    stdout_encoding, \* the encoding of the process's sys.stdout (line 147)
    stdout_errors,   \* the error handler of the process's sys.stdout
    now,         \* the wall clock at its last reading, in seconds
    rtext,       \* renderer study: the text under layout
    rdocA,       \* renderer study: first rendering
    rdocB,       \* renderer study: second rendering
    mixIn,       \* mixdown study: the decoded array
    mixOut,      \* mixdown study: mixdown of mixIn
    mixSwapOut   \* mixdown study: mixdown of mixIn with channels swapped

vars == <<pc, loc, fs, sessions, vosk_model, stdout_encoding, stdout_errors, now,
          rtext, rdocA, rdocB, mixIn, mixOut, mixSwapOut>>

----------------------------------------------------------------------------
(* Bounds of the model *)

NumInv == 2        \* concurrent invocations of the handler
MaxClock == 1      \* seconds the wall clock may advance
MaxWords == 40     \* words in a text handed to the renderer study
MaxFrames == 2     \* frames in an array handed to the mixdown study

Inv == 1..NumInv
TmpNames == 1..NumInv

None == [none |-> TRUE]

----------------------------------------------------------------------------
(* Text *)

SP == 32
LF == 10
CR == 13

\* "No speech detected."
Placeholder ==
    <<78, 111, 32, 115, 112, 101, 101, 99, 104, 32,
      100, 101, 116, 101, 99, 116, 101, 100, 46>>

IsSpace(c) ==
    \/ c \in {9, 10, 11, 12, 13, 28, 29, 30, 31, 32, 133, 160}
    \/ c \in {5760, 8232, 8233, 8239, 8287, 12288}
    \/ c \in 8192..8202

RECURSIVE LStrip(_)
LStrip(s) ==
    IF s # <<>> /\ IsSpace(Head(s)) THEN LStrip(Tail(s)) ELSE s

RECURSIVE RStrip(_)
RStrip(s) ==
    IF s # <<>> /\ IsSpace(s[Len(s)])
    THEN RStrip(SubSeq(s, 1, Len(s) - 1))
    ELSE s

\* str.strip()
Strip(s) == RStrip(LStrip(s))

\* The encodings sys.stdout may have
StdoutEncodings == {"utf-8", "latin-1"}

\* The error handlers sys.stdout may have: strict, and surrogateescape,
\* the interpreter's choice under the C and POSIX locales and in UTF-8 mode
StdoutErrors == {"strict", "surrogateescape"}

\* str.encode("latin1") succeeds
Latin1Ok(s) == \A k \in 1..Len(s) : s[k] <= 255

\* The codec enc encodes the code point c.  utf-8 refuses the surrogates
\* U+D800..U+DFFF, which json.loads returns for a lone \udXXX escape;
\* latin-1 refuses everything above U+00FF.
CodecEncodes(c, enc) ==
    IF enc = "utf-8" THEN c \notin 55296..57343 ELSE c <= 255

\* The error handler takes care of a code point the codec refused.
\* surrogateescape writes the byte behind U+DC80..U+DCFF and raises on
\* every other code point; surrogatepass lets the utf-8 codec write a
\* surrogate and raises otherwise; the replacing handlers write a
\* substitute for any code point; strict raises.
HandlerEncodes(c, enc, errors) ==
    CASE errors = "surrogateescape" -> c \in 56448..56575
      [] errors = "surrogatepass" -> enc = "utf-8" /\ c \in 55296..57343
      [] errors \in {"ignore", "replace", "backslashreplace",
                     "xmlcharrefreplace", "namereplace"} -> TRUE
      [] OTHER -> FALSE

\* Line 147: print(text) raises UnicodeEncodeError when neither the codec
\* nor the error handler of stdout can encode some code point of the text
CanPrint(text, enc, errors) ==
    \A k \in 1..Len(text) :
        CodecEncodes(text[k], enc) \/ HandlerEncodes(text[k], enc, errors)

----------------------------------------------------------------------------
(* FPDF() defaults and the calls of lines 152-155 *)

Pt100(x) == x * 254
Mm(x) == x * 72000

PageW == Pt100(59528)
PageH == Pt100(84189)
Margin == Pt100(2835)
LMargin == Margin
RMargin == Margin
TMargin == Margin
CMargin == Margin \div 10
BMargin == 2 * Margin
PageBreakTrigger == PageH - BMargin
FontSize == Pt100(1200)
LineH == Mm(10)

\* Arial (Helvetica) advance widths, 1/1000 of the font size; a character
\* the core font does not hold has width 0 (cw.get(c, 0)).
CharWidth(c) ==
    CASE c > 255 -> 0
      [] c \in {9, 10, 13, 32, 46, 102, 116, 160} -> 278
      [] c \in {105, 106, 108} -> 222
      [] c = 114 -> 333
      [] c \in {99, 107, 115, 118, 120, 121, 122} -> 500
      [] c \in {97, 98, 100, 101, 103, 104, 110, 111, 112, 113, 117, 233} -> 556
      [] c \in {78, 119} -> 722
      [] c = 109 -> 833

\* multi_cell(0, ...): w = self.w - self.r_margin - self.x, and the widest
\* line, (w - 2 * c_margin) * 1000 / font_size, rounded down (line widths
\* are whole); the factor 100 is cancelled to stay within 32 bits.
WMax == ((PageW - RMargin - LMargin - 2 * CMargin) * 10) \div (FontSize \div 100)

\* cell(): the automatic page break test (accept_page_break is on)
BreakBeforeNoAutoBreak(y) == FALSE
BreakBefore(y) == y + LineH > PageBreakTrigger

\* cell(w, 10, txt, ln=2) on the document d = [pages, y]: a page is added
\* when the cell would cross the trigger, the text is printed and y moves
\* one line down.
Cell(d, txt) ==
    LET brk == BreakBefore(d.y)
        pgs == IF brk THEN Append(d.pages, <<>>) ELSE d.pages
        y0  == IF brk THEN TMargin ELSE d.y
        n   == Len(pgs)
    IN  [pages |-> [pgs EXCEPT ![n] = Append(@, txt)], y |-> y0 + LineH]

\* One iteration of multi_cell's loop "while i < nb".  st holds the loop's
\* variables with the code's 0-based indices: i the scanning index, j the
\* start of the line, l its width so far, sep the last space seen (-1:
\* none), and the document the cells go to.
MCStep(s, st) ==
    LET i == st.i
        j == st.j
        c == s[i + 1]
        sep2 == IF c = SP THEN i ELSE st.sep
        l2 == st.l + CharWidth(c)
        i2 == IF i = j THEN i + 1 ELSE i
    IN  IF c = LF
        THEN [i |-> i + 1, j |-> i + 1, l |-> 0, sep |-> -1,
              doc |-> Cell(st.doc, SubSeq(s, j + 1, i))]
        ELSE IF l2 > WMax
        THEN IF sep2 = -1
             THEN [i |-> i2, j |-> i2, l |-> 0, sep |-> -1,
                   doc |-> Cell(st.doc, SubSeq(s, j + 1, i2))]
             ELSE [i |-> sep2 + 1, j |-> sep2 + 1, l |-> 0, sep |-> -1,
                   doc |-> Cell(st.doc, SubSeq(s, j + 1, sep2))]
        ELSE [i |-> i + 1, j |-> j, l |-> l2, sep |-> sep2, doc |-> st.doc]

\* The loop: at most n iterations from st, stopping when i reaches nb.
\* The iterations are split in halves to keep the evaluation shallow.
RECURSIVE MCLoop(_, _, _, _)
MCLoop(s, nb, st, n) ==
    IF n = 0 \/ st.i >= nb THEN st
    ELSE IF n = 1 THEN MCStep(s, st)
    ELSE MCLoop(s, nb, MCLoop(s, nb, st, n \div 2), n - n \div 2)

\* No character is scanned more than three times
MCFuel(nb) == 3 * nb + 2

\* multi_cell(0, 10, txt) on the document d
MultiCell(d, txt) ==
    LET s == SelectSeq(txt, LAMBDA c : c # CR)
        nb == IF Len(s) > 0 /\ s[Len(s)] = LF THEN Len(s) - 1 ELSE Len(s)
        end == MCLoop(s, nb, [i |-> 0, j |-> 0, l |-> 0, sep |-> -1, doc |-> d],
                      MCFuel(nb))
    IN  Cell(end.doc, SubSeq(s, end.j + 1, end.i))

\* pdf = FPDF(); pdf.add_page(); pdf.set_font(...); pdf.multi_cell(0, 10, txt)
Layout(txt) == MultiCell([pages |-> << <<>> >>, y |-> TMargin], txt).pages

PageOk(page) == \A k \in 1..Len(page) : Latin1Ok(page[k])

\* pdf.output(dest="S"): _putpages encodes every page as latin-1
CanSerialize(pages) == \A p \in 1..Len(pages) : PageOk(pages[p])

\* The serialised document: the page streams and the /CreationDate that
\* _putinfo stamps from the clock.
Stamp(pages, clock) == [pages |-> pages, creationDate |-> clock]

\* Line 155: text if text else "No speech detected."
DocTextRaw(text) == text
DocText(text) == IF text # <<>> THEN text ELSE Placeholder


\* Lines 152-157: the document, or the failure of pdf.output
Render(text, clock) ==
    LET pages == Layout(DocText(text))
    IN  IF CanSerialize(pages)
        THEN [ok |-> TRUE, doc |-> Stamp(pages, clock)]
        ELSE [ok |-> FALSE, doc |-> None]

----------------------------------------------------------------------------
(* soundfile.read and the mixdown of lines 135-139 *)

RECURSIVE GCD(_, _)
GCD(a, b) == IF b = 0 THEN a ELSE GCD(b, a % b)

Abs(x) == IF x < 0 THEN -x ELSE x

\* A sample value as an exact fraction in lowest terms, d > 0
Rat(n, d) ==
    LET g == GCD(Abs(n), d)
    IN  IF n = 0 THEN [n |-> 0, d |-> 1] ELSE [n |-> n \div g, d |-> d \div g]

RatAdd(a, b) == Rat(a.n * b.d + b.n * a.d, a.d * b.d)
RatDiv(a, k) == Rat(a.n, a.d * k)

\* 16-bit PCM read as float64: v / 2^15
FullScale == 32768
ToFloat(v) == Rat(v, FullScale)

RECURSIVE RowSum(_, _)
RowSum(row, k) ==
    IF k = 0 THEN Rat(0, 1) ELSE RatAdd(RowSum(row, k - 1), row[k])

\* ndarray.mean over one frame's channel values
MeanLeftOnly(row) == row[1]
Mean(row) == RatDiv(RowSum(row, Len(row)), Len(row))

\* sf.read(path): (frames,) for one channel, (frames, channels) otherwise
SfReadOkAlways(bytes) == TRUE
SfReadOk(bytes) == bytes.valid

SfRead(bytes) ==
    [audio |->
        [ndim |-> IF bytes.channels = 1 THEN 1 ELSE 2,
         data |-> [k \in 1..Len(bytes.frames) |->
                     IF bytes.channels = 1
                     THEN ToFloat(bytes.frames[k][1])
                     ELSE [c \in 1..bytes.channels |-> ToFloat(bytes.frames[k][c])]],
         speech |-> bytes.speech],
     samplerate |-> bytes.samplerate]

\* Lines 138-139
NormalizeNoMix(audio) == audio
Normalize(audio) ==
    IF audio.ndim = 2
    THEN [audio EXCEPT !.ndim = 1,
                       !.data = [k \in 1..Len(audio.data) |-> Mean(audio.data[k])]]
    ELSE audio

----------------------------------------------------------------------------
(* The recognizer *)

MODEL_PATH == "models/vosk-model-small-en-us-0.15"
Model(path) == [path |-> path]

NoSession == [exists |-> FALSE]
Session(i, model, rate) ==
    [exists |-> TRUE, owner |-> i, model |-> model, rate |-> rate,
     words |-> TRUE, heard |-> <<>>, users |-> {}]

\* KaldiRecognizer(vosk_model, samplerate); SetWords(True): a new object.
\* Objects are interchangeable, so the one an invocation constructs is
\* named by the invocation's number.
NewRecognizerShared(ss, i, model, rate) ==
    IF \E k \in Inv : ss[k].exists
    THEN [id |-> CHOOSE k \in Inv : ss[k].exists, sessions |-> ss]
    ELSE [id |-> i, sessions |-> [ss EXCEPT ![i] = Session(i, model, rate)]]
NewRecognizer(ss, i, model, rate) ==
    [id |-> i, sessions |-> [ss EXCEPT ![i] = Session(i, model, rate)]]

\* The best hypothesis for everything a session has accepted: the
\* utterances of its waveforms, in order, separated by a space.
RECURSIVE Hypothesis(_)
Hypothesis(heard) ==
    IF heard = <<>> THEN <<>>
    ELSE IF Len(heard) = 1 THEN heard[1].speech
    ELSE heard[1].speech \o <<SP>> \o Hypothesis(Tail(heard))

\* audio.tobytes(): the float64 samples, 8 bytes each
Waveform(audio) ==
    [samples |-> audio.data, nbytes |-> 8 * Len(audio.data), speech |-> audio.speech]

----------------------------------------------------------------------------
(* Uploads *)

Hi == <<104, 105, 32, 116, 104, 101, 114, 101>>      \* "hi there"
Omega == <<111, 104, 109, 32, 937>>                  \* "ohm " and U+03A9
Escaped == <<104, 105, 56448>>                       \* "hi" and a lone U+DC80

BadClip ==
    [valid |-> FALSE, samplerate |-> 0, channels |-> 0, frames |-> <<>>,
     speech |-> <<>>]

Clips ==
    { BadClip,
      [valid |-> TRUE, samplerate |-> 16000, channels |-> 1,
       frames |-> <<<<100>>, <<-32768>>, <<32767>>>>, speech |-> <<>>],
      [valid |-> TRUE, samplerate |-> 44100, channels |-> 2,
       frames |-> <<<<100, 301>>, <<-32768, 32767>>>>, speech |-> <<SP>> \o Hi],
      [valid |-> TRUE, samplerate |-> 8000, channels |-> 1,
       frames |-> <<<<7>>>>, speech |-> Omega],
      [valid |-> TRUE, samplerate |-> 8000, channels |-> 1,
       frames |-> <<<<-1>>>>, speech |-> Escaped] }

NoFile == [exists |-> FALSE]
File(i, data) == [exists |-> TRUE, owner |-> i, data |-> data]
EmptyBytes == [valid |-> FALSE, samplerate |-> 0, channels |-> 0, frames |-> <<>>,
               speech |-> <<>>, empty |-> TRUE]
\* What a write that failed partway leaves: a non-empty proper prefix of the
\* upload, which no decoder is ever given
PartialBytes(data) ==
    [valid |-> FALSE, samplerate |-> 0, channels |-> 0, frames |-> <<>>,
     speech |-> <<>>, empty |-> FALSE, prefixOf |-> data]

\* NamedTemporaryFile(delete=False, suffix=".wav"): a name no file has.
\* Names are interchangeable, so the least unused one stands for the
\* random name the library draws.
AnyName(f) == TmpNames
FreshNames(f) ==
    { n \in TmpNames : ~f[n].exists /\ \A m \in 1..(n - 1) : f[m].exists }

Locals0 ==
    [file |-> None, tmp_path |-> 0, audio |-> None, samplerate |-> 0,
     recognizer |-> 0, text |-> None, response |-> None, error |-> "none",
     ranDecode |-> 0, ranRecognize |-> 0, ranRender |-> 0,
     readOwner |-> 0, readData |-> None, removedOwner |-> 0]

Terminated(i) == pc[i] \in {"done", "failed"}

----------------------------------------------------------------------------
(* The handler, one action per step between which another invocation can run *)

StudyIdle ==
    /\ rtext = <<>> /\ rdocA = None /\ rdocB = None
    /\ mixIn = None /\ mixOut = None /\ mixSwapOut = None

PipelineIdle ==
    /\ pc = [i \in Inv |-> "idle"]
    /\ loc = [i \in Inv |-> Locals0]
    /\ fs = [n \in TmpNames |-> NoFile]
    /\ sessions = [i \in Inv |-> NoSession]
    /\ vosk_model = Model(MODEL_PATH)

Init ==
    /\ PipelineIdle
    /\ stdout_encoding \in StdoutEncodings
    /\ stdout_errors \in StdoutErrors
    /\ now = 0
    /\ StudyIdle

StudyVars == <<rtext, rdocA, rdocB, mixIn, mixOut, mixSwapOut>>

\* Line 130: the request arrives and the temporary file is created.
\* Invocations are numbered in the order their requests arrive.
OpenTmp(i) ==
    /\ pc[i] = "idle"
    /\ \A j \in 1..(i - 1) : pc[j] # "idle"
    /\ \E c \in Clips, n \in FreshNames(fs) :
        /\ fs' = [fs EXCEPT ![n] = File(i, EmptyBytes)]
        /\ loc' = [loc EXCEPT ![i].file = c, ![i].tmp_path = n]
    /\ pc' = [pc EXCEPT ![i] = "write"]
    /\ UNCHANGED <<sessions, vosk_model, stdout_encoding, stdout_errors, now,
                 StudyVars>>

\* Lines 131-132: after the awaited read, the upload is written and the
\* file closed.  When the read raises, the with block closes the file, still
\* empty; when the write, or the flush at the close, raises, the file is
\* left empty or holding a prefix of the upload.  Either exception leaves
\* the handler.
WriteTmp(i) ==
    /\ pc[i] = "write"
    /\ \E outcome \in {"written", "empty", "partial"} :
        IF outcome = "written"
        THEN /\ fs' = [fs EXCEPT ![loc[i].tmp_path] =
                         [exists |-> TRUE, owner |-> @.owner, data |-> loc[i].file]]
             /\ pc' = [pc EXCEPT ![i] = "read"]
             /\ UNCHANGED loc
        ELSE /\ fs' = [fs EXCEPT ![loc[i].tmp_path] =
                         [exists |-> TRUE, owner |-> @.owner,
                          data |-> IF outcome = "partial"
                                   THEN PartialBytes(loc[i].file)
                                   ELSE @.data]]
             /\ loc' = [loc EXCEPT ![i].error = "UploadError"]
             /\ pc' = [pc EXCEPT ![i] = "failed"]
    /\ UNCHANGED <<sessions, vosk_model, stdout_encoding, stdout_errors, now,
                 StudyVars>>

\* Lines 135-139: sf.read raises on what it cannot decode, and the
\* exception leaves the handler
Decode(i) ==
    /\ pc[i] = "read"
    /\ LET f == fs[loc[i].tmp_path]
       IN  IF f.exists /\ SfReadOk(f.data)
           THEN LET r == SfRead(f.data)
                IN  /\ loc' = [loc EXCEPT ![i].audio = Normalize(r.audio),
                                          ![i].samplerate = r.samplerate,
                                          ![i].ranDecode = @ + 1,
                                          ![i].readOwner = f.owner,
                                          ![i].readData = f.data]
                    /\ pc' = [pc EXCEPT ![i] = "kaldi"]
           ELSE /\ loc' = [loc EXCEPT ![i].error = "DecodeError",
                                      ![i].ranDecode = @ + 1]
                /\ pc' = [pc EXCEPT ![i] = "failed"]
    /\ UNCHANGED <<fs, sessions, vosk_model, stdout_encoding, stdout_errors, now,
                 StudyVars>>

\* Lines 141-142: the constructor raises when the engine refuses
CreateRecognizer(i) ==
    /\ pc[i] = "kaldi"
    /\ \E accepted \in BOOLEAN :
        IF accepted
        THEN LET r == NewRecognizer(sessions, i, vosk_model, loc[i].samplerate)
             IN  /\ sessions' = r.sessions
                 /\ loc' = [loc EXCEPT ![i].recognizer = r.id]
                 /\ pc' = [pc EXCEPT ![i] = "accept"]
        ELSE /\ loc' = [loc EXCEPT ![i].error = "RecognitionError"]
             /\ pc' = [pc EXCEPT ![i] = "failed"]
             /\ UNCHANGED sessions
    /\ UNCHANGED <<fs, vosk_model, stdout_encoding, stdout_errors, now,
                 StudyVars>>

\* Lines 144-147: AcceptWaveform, FinalResult, json.loads,
\* result.get("text").strip() and print(text).  The engine calls raise when
\* the engine fails, and print raises when stdout cannot encode the text;
\* either exception leaves the handler before line 149.
Recognize(i) ==
    /\ pc[i] = "accept"
    /\ \E accepted \in BOOLEAN :
       LET id == loc[i].recognizer
           heard == Append(sessions[id].heard, Waveform(loc[i].audio))
           text == Strip(Hypothesis(heard))
       IN  IF ~accepted
           THEN /\ sessions' = [sessions EXCEPT ![id].users = @ \cup {i}]
                /\ loc' = [loc EXCEPT ![i].error = "RecognitionError",
                                      ![i].ranRecognize = @ + 1]
                /\ pc' = [pc EXCEPT ![i] = "failed"]
           ELSE /\ sessions' = [sessions EXCEPT ![id].heard = <<>>,
                                                 ![id].users = @ \cup {i}]
                /\ IF CanPrint(text, stdout_encoding, stdout_errors)
                   THEN /\ loc' = [loc EXCEPT ![i].text = text,
                                              ![i].ranRecognize = @ + 1]
                        /\ pc' = [pc EXCEPT ![i] = "remove"]
                   ELSE /\ loc' = [loc EXCEPT ![i].text = text,
                                              ![i].ranRecognize = @ + 1,
                                              ![i].error = "PrintError"]
                        /\ pc' = [pc EXCEPT ![i] = "failed"]
    /\ UNCHANGED <<fs, vosk_model, stdout_encoding, stdout_errors, now,
                 StudyVars>>

\* Line 149: os.remove(tmp_path)
Remove(i) ==
    /\ pc[i] = "remove"
    /\ LET n == loc[i].tmp_path
       IN  IF fs[n].exists
           THEN /\ fs' = [fs EXCEPT ![n] = NoFile]
                /\ loc' = [loc EXCEPT ![i].removedOwner = fs[n].owner]
                /\ pc' = [pc EXCEPT ![i] = "pdf"]
           ELSE /\ loc' = [loc EXCEPT ![i].error = "FileNotFoundError"]
                /\ pc' = [pc EXCEPT ![i] = "failed"]
                /\ UNCHANGED fs
    /\ UNCHANGED <<sessions, vosk_model, stdout_encoding, stdout_errors, now,
                 StudyVars>>

\* Lines 152-164: the document is built, serialised at some second t not
\* before the last reading of the clock, and returned
RenderPdf(i) ==
    /\ pc[i] = "pdf"
    /\ \E t \in now..MaxClock :
       LET r == Render(loc[i].text, t)
       IN  /\ now' = t
           /\ IF r.ok
              THEN /\ loc' = [loc EXCEPT ![i].response = r.doc,
                                         ![i].ranRender = @ + 1]
                   /\ pc' = [pc EXCEPT ![i] = "done"]
              ELSE /\ loc' = [loc EXCEPT ![i].error = "RenderError",
                                         ![i].ranRender = @ + 1]
                   /\ pc' = [pc EXCEPT ![i] = "failed"]
    /\ UNCHANGED <<fs, sessions, vosk_model, stdout_encoding, stdout_errors,
                 StudyVars>>

Next ==
    \/ \E i \in Inv : OpenTmp(i)
    \/ \E i \in Inv : WriteTmp(i)
    \/ \E i \in Inv : Decode(i)
    \/ \E i \in Inv : CreateRecognizer(i)
    \/ \E i \in Inv : Recognize(i)
    \/ \E i \in Inv : Remove(i)
    \/ \E i \in Inv : RenderPdf(i)

Spec == Init /\ [][Next]_vars

----------------------------------------------------------------------------
(* Renderer study: lines 152-157 applied to texts of many lengths *)

Rep(c, n) == [k \in 1..n |-> c]

Hello == <<104, 101, 108, 108, 111>>     \* "hello"
SampleWords == { Hello, Rep(109, 10), Rep(109, 53), Rep(109, 60) }

\* n copies of the word w separated by single spaces
Sentence(w, n) ==
    LET m == Len(w) + 1
    IN  [k \in 1..(IF n = 0 THEN 0 ELSE n * m - 1) |->
            IF k % m = 0 THEN SP ELSE w[k % m]]

RenderTexts == { Sentence(w, n) : w \in SampleWords, n \in 0..MaxWords }

InitRender ==
    /\ PipelineIdle
    /\ stdout_encoding = "utf-8"
    /\ stdout_errors = "strict"
    /\ now = 0
    /\ rtext \in RenderTexts
    /\ rdocA = None /\ rdocB = None
    /\ mixIn = None /\ mixOut = None /\ mixSwapOut = None

RenderFirst ==
    /\ rdocA = None
    /\ \E t \in now..MaxClock :
        /\ now' = t
        /\ rdocA' = Render(rtext, t)
    /\ UNCHANGED <<pc, loc, fs, sessions, vosk_model, stdout_encoding,
                   stdout_errors, rtext, rdocB, mixIn, mixOut, mixSwapOut>>

RenderAgain ==
    /\ rdocA # None /\ rdocB = None
    /\ \E t \in now..MaxClock :
        /\ now' = t
        /\ rdocB' = Render(rtext, t)
    /\ UNCHANGED <<pc, loc, fs, sessions, vosk_model, stdout_encoding,
                   stdout_errors, rtext, rdocA, mixIn, mixOut, mixSwapOut>>

NextRender == RenderFirst \/ RenderAgain

SpecRender == InitRender /\ [][NextRender]_vars

----------------------------------------------------------------------------
(* Mixdown study: lines 138-139 applied to decoded stereo arrays *)

SampleVals == {-32768, -1, 0, 1, 32767}

StereoFrames == { <<ToFloat(a), ToFloat(b)>> : a, b \in SampleVals }

RECURSIVE SeqsUpTo(_, _)
SeqsUpTo(S, n) ==
    IF n = 0 THEN { <<>> }
    ELSE LET shorter == SeqsUpTo(S, n - 1)
         IN  shorter \cup { Append(q, x) : q \in shorter, x \in S }

StereoArrays ==
    { [ndim |-> 2, data |-> d, speech |-> <<>>] : d \in SeqsUpTo(StereoFrames, MaxFrames) }

\* audio[:, ::-1]: the same frames with left and right exchanged
SwapChannels(audio) ==
    [audio EXCEPT !.data = [k \in 1..Len(audio.data) |->
                              <<audio.data[k][2], audio.data[k][1]>>]]

InitMix ==
    /\ PipelineIdle
    /\ stdout_encoding = "utf-8"
    /\ stdout_errors = "strict"
    /\ now = 0
    /\ rtext = <<>> /\ rdocA = None /\ rdocB = None
    /\ mixIn \in StereoArrays
    /\ mixOut = None /\ mixSwapOut = None

MixDown ==
    /\ mixOut = None
    /\ mixOut' = Normalize(mixIn)
    /\ UNCHANGED <<pc, loc, fs, sessions, vosk_model, stdout_encoding,
                   stdout_errors, now, rtext, rdocA, rdocB, mixIn, mixSwapOut>>

MixDownSwapped ==
    /\ mixSwapOut = None
    /\ mixSwapOut' = Normalize(SwapChannels(mixIn))
    /\ UNCHANGED <<pc, loc, fs, sessions, vosk_model, stdout_encoding,
                   stdout_errors, now, rtext, rdocA, rdocB, mixIn, mixOut>>

NextMix == MixDown \/ MixDownSwapped

SpecMix == InitMix /\ [][NextMix]_vars

----------------------------------------------------------------------------
(* Properties *)

Live(i) == pc[i] \in {"write", "read", "kaldi", "accept", "remove"}

OwnsFile(i) == \E n \in TmpNames : fs[n].exists /\ fs[n].owner = i

RECURSIVE Flatten(_)
Flatten(pages) ==
    IF pages = <<>> THEN <<>> ELSE Head(pages) \o Flatten(Tail(pages))

RECURSIVE JoinLines(_)
JoinLines(lines) ==
    IF lines = <<>> THEN <<>>
    ELSE IF Len(lines) = 1 THEN lines[1]
    ELSE lines[1] \o <<SP>> \o JoinLines(Tail(lines))

\* Lines per page: the cells of height LineH that fit between the top
\* margin and the page break trigger
LinesPerPage == (PageBreakTrigger - TMargin) \div LineH

CeilDiv(a, b) == (a + b - 1) \div b

RECURSIVE CountLines(_, _)
CountLines(pages, p) ==
    IF p = 0 THEN 0 ELSE CountLines(pages, p - 1) + Len(pages[p])

RECURSIVE IntSum(_, _)
IntSum(frame, c) == IF c = 0 THEN 0 ELSE IntSum(frame, c - 1) + frame[c]

\* What an invocation run alone extracts from an upload
AloneText(clip) ==
    Strip(Hypothesis(<<Waveform(Normalize(SfRead(clip).audio))>>))

\* C1: once an invocation has ended, by a document or by any failure, the
\* temporary file it created no longer exists.
C1_TempFileRemovedOnEveryExit ==
    \A i \in Inv : Terminated(i) => ~OwnsFile(i)

\* C2: decode, recognize and render run in this order and at most once each;
\* the first failing stage ends the invocation with no later stage run and no
\* document; a malformed upload fails at decode before any recognizer exists;
\* an ended invocation holds either a complete document or a failure.
C2_FirstFailureAborts ==
    \A i \in Inv :
        LET v == loc[i]
        IN  /\ v.ranDecode <= 1 /\ v.ranRecognize <= 1 /\ v.ranRender <= 1
            /\ v.ranRecognize = 1 =>
                  (v.ranDecode = 1 /\ v.audio # None /\ v.error # "DecodeError")
            /\ v.ranRender = 1 =>
                  /\ v.ranRecognize = 1 /\ v.text # None
                  /\ v.error \in {"none", "RenderError"}
            /\ v.error = "UploadError" =>
                  v.ranDecode = 0 /\ v.ranRecognize = 0 /\ v.ranRender = 0
            /\ v.error = "DecodeError" =>
                  /\ v.recognizer = 0
                  /\ \A k \in Inv :
                        ~(sessions[k].exists /\ sessions[k].owner = i)
                  /\ v.ranRecognize = 0 /\ v.ranRender = 0
            /\ v.error = "RecognitionError" =>
                  v.text = None /\ v.ranRender = 0
            /\ v.error = "PrintError" =>
                  v.ranRecognize = 1 /\ v.ranRender = 0
            /\ (v.ranDecode = 1 /\ ~v.file.valid) =>
                  (pc[i] = "failed" /\ v.error = "DecodeError")
            /\ v.error # "none" => (pc[i] = "failed" /\ v.response = None)
            /\ v.response # None =>
                  (pc[i] = "done" /\ v.response.pages = Layout(DocText(v.text)))
            /\ Terminated(i) =>
                  \/ pc[i] = "done" /\ v.error = "none" /\ v.response # None
                  \/ pc[i] = "failed" /\ v.error # "none" /\ v.response = None

C2_Witness ==
    \E i, j \in Inv :
        /\ pc[i] = "failed" /\ loc[i].error = "DecodeError" /\ ~loc[i].file.valid
        /\ pc[j] = "done" /\ loc[j].response # None

\* C3: an empty transcript is no failure: the document has one page whose
\* content is the placeholder phrase; a non-empty transcript gives a
\* document whose content is the transcript and not the placeholder.
C3_EmptyTranscriptPlaceholder ==
    \A i \in Inv :
        LET v == loc[i]
        IN  /\ v.text = <<>> => pc[i] # "failed"
            /\ (v.ranRender = 1 /\ v.text = <<>>) =>
                  /\ pc[i] = "done"
                  /\ v.response.pages = << <<Placeholder>> >>
            /\ (pc[i] = "done" /\ v.text # <<>>) =>
                  /\ JoinLines(Flatten(v.response.pages)) = v.text
                  /\ JoinLines(Flatten(v.response.pages)) # Placeholder

C3_Witness ==
    \E i, j \in Inv :
        /\ pc[i] = "done" /\ loc[i].text = <<>>
        /\ pc[j] = "done" /\ loc[j].text # <<>>

\* C4: whatever the transcript text, rendering completes and returns a
\* document.
C4_TextNeverFailsRender ==
    \A i \in Inv :
        loc[i].ranRender = 1 => (pc[i] = "done" /\ loc[i].response # None)

\* C5: every invocation has a recognizer session of its own, used by no
\* other invocation; the model loaded at start is what every session is
\* built on and is never changed; the transcript and the document are those
\* of the invocation run alone.
C5_SessionsIsolated ==
    /\ vosk_model = Model(MODEL_PATH)
    /\ \A k \in Inv :
          sessions[k].exists =>
              /\ sessions[k].model = Model(MODEL_PATH)
              /\ sessions[k].users \subseteq {sessions[k].owner}
    /\ \A i \in Inv :
          LET v == loc[i]
          IN  /\ pc[i] \in {"accept", "remove", "pdf", "done"} =>
                    /\ v.recognizer # 0
                    /\ sessions[v.recognizer].exists
                    /\ sessions[v.recognizer].owner = i
              /\ \A j \in Inv \ {i} :
                    v.recognizer # 0 => loc[j].recognizer # v.recognizer
              /\ v.text # None => v.text = AloneText(v.file)
              /\ v.response # None =>
                    v.response.pages = Layout(DocText(AloneText(v.file)))

C5_Witness ==
    \E i, j \in Inv :
        /\ i # j
        /\ pc[i] = "done" /\ pc[j] = "accept"
        /\ sessions[loc[i].recognizer].users = {i}
        /\ sessions[loc[j].recognizer].users = {}
        /\ loc[j].recognizer # loc[i].recognizer

\* C6: the page count is the number of wrapped lines divided by the lines
\* per page, rounded up, and no page holds more than the lines per page.
C6_PageCount ==
    (rdocA # None /\ rdocA.ok) =>
        LET pages == rdocA.doc.pages
            total == CountLines(pages, Len(pages))
        IN  /\ Len(pages) = CeilDiv(total, LinesPerPage)
            /\ \A p \in 1..Len(pages) : Len(pages[p]) <= LinesPerPage

C6_Witness ==
    /\ rdocA # None /\ rdocA.ok
    /\ Len(rdocA.doc.pages) >= 3
    /\ Len(rdocA.doc.pages[Len(rdocA.doc.pages)]) < LinesPerPage

\* C7: rendering the same non-empty text twice yields byte-identical
\* documents.
C7_RenderByteIdentical ==
    (rtext # <<>> /\ rdocA # None /\ rdocB # None) => rdocA = rdocB

\* C8: the array handed on after normalization has one value per frame, as
\* many values as the upload has frames, each the arithmetic mean of the
\* frame's channel values (the value itself for one channel), and the
\* recognizer is given the decoded sample rate.
C8_MonoSameRate ==
    \A i \in Inv :
        LET v == loc[i]
            c == v.file
        IN  v.audio # None =>
              /\ v.audio.ndim = 1
              /\ Len(v.audio.data) = Len(c.frames)
              /\ \A k \in 1..Len(c.frames) :
                    /\ v.audio.data[k] =
                          Rat(IntSum(c.frames[k], c.channels), FullScale * c.channels)
                    /\ c.channels = 1 => v.audio.data[k] = ToFloat(c.frames[k][1])
              /\ v.samplerate = c.samplerate
              /\ v.recognizer # 0 => sessions[v.recognizer].rate = c.samplerate
              /\ v.ranRecognize = 1 => Waveform(v.audio).nbytes = 8 * Len(c.frames)

C8_Witness ==
    \E i, j \in Inv :
        /\ loc[i].ranRecognize = 1 /\ loc[i].file.channels = 2
        /\ loc[j].ranRecognize = 1 /\ loc[j].file.channels = 1
        /\ loc[i].samplerate # loc[j].samplerate

\* C9: mixing down a stereo array and mixing down the same array with left
\* and right exchanged give the same mono array.
C9_MixdownCommutes ==
    (mixOut # None /\ mixSwapOut # None) => mixOut = mixSwapOut

C9_Witness ==
    /\ mixOut # None /\ mixSwapOut # None
    /\ Len(mixIn.data) = MaxFrames
    /\ \A k \in 1..Len(mixIn.data) : mixIn.data[k][1] # mixIn.data[k][2]

\* C10: invocations that hold a temporary file hold different files, each
\* created by its holder; an invocation decodes only the bytes it wrote and
\* removes only the file it created.
C10_TempFilesPrivate ==
    \A i \in Inv :
        LET v == loc[i]
        IN  /\ Live(i) =>
                  (fs[v.tmp_path].exists /\ fs[v.tmp_path].owner = i)
            /\ \A j \in Inv \ {i} :
                  (Live(i) /\ Live(j)) => v.tmp_path # loc[j].tmp_path
            /\ v.readOwner \in {0, i}
            /\ v.readData # None => v.readData = v.file
            /\ v.removedOwner \in {0, i}

C10_Witness ==
    \E i, j \in Inv :
        /\ i # j
        /\ loc[i].removedOwner = i
        /\ pc[j] = "remove" /\ loc[j].readOwner = j
        /\ loc[j].tmp_path = loc[i].tmp_path

====
